---- MODULE Spec2Model ----
(***************************************************************************)
(* Primel solver: the candidate filter, the feedback evaluator, the two    *)
(* guess selectors (frequency heuristic and simulation heuristic) and the  *)
(* interaction loop of main.                                               *)
(*                                                                         *)
(* Go slices are modelled as TLA+ sequences, so the Go index i is the      *)
(* TLA+ index i + 1.  Position 1 is the units digit (getDigits is          *)
(* least-significant digit first), position 5 the ten-thousands digit.     *)
(***************************************************************************)
EXTENDS Integers, Sequences, FiniteSets, TLC

VARIABLES
    strategy,               \* which of the two programs runs: "frequency" or "simulation"
    candidates,             \* main: candidates
    bestGuess,              \* main: bestGuess
    feedbackPerDigit,       \* main: feedbackPerDigit (scoped to one loop iteration)
    pc,                     \* main: position in the loop / which function was applied
    exitCode,               \* process exit code, -1 while running
    prevCandidates,         \* history: candidates before the last filtering round
    prevGuess,              \* history: the guess of the last filtering round
    guessDigits,            \* getFeedbackPerDigit: argument guessDigits
    possibleSolutionDigits, \* getFeedbackPerDigit: argument possibleSolutionDigits
    guess,                  \* evaluateGuess: argument guess
    possibleSolution,       \* evaluateGuess: possibleSolution of the goroutine under study
    newCandidates,          \* incorporateFeedback: the returned slice
    outcome,                \* findBestGuess: "return", "panic" or "none"
    spawned,                \* evaluateGuess: loop index i (goroutines started so far)
    wg,                     \* evaluateGuess: the WaitGroup counter
    remainingCandidatesAfterGuess, \* evaluateGuess: the shared uint64 accumulator
    goroutines,             \* evaluateGuess: each goroutine's position and locals
    returned                \* evaluateGuess: the returned value, -1 before the return

vars == <<strategy, candidates, bestGuess, feedbackPerDigit, pc, exitCode,
          prevCandidates, prevGuess, guessDigits, possibleSolutionDigits,
          guess, possibleSolution, newCandidates, outcome, spawned, wg,
          remainingCandidatesAfterGuess, goroutines, returned>>

(***************************************************************************)
(* Bounds of the model.                                                    *)
(***************************************************************************)
\* longest digit sequence handed to getFeedbackPerDigit on its own
MaxLen == 4
\* largest digit in those digit sequences
MaxDigit == 2
\* longest candidate slice evaluateGuess is run on, one goroutine per candidate
MaxGoroutines == 3
\* number of primes of the sample the candidate set starts from
NumPrimes == 5

(***************************************************************************)
(* Program constants.                                                      *)
(***************************************************************************)
feedbackTypeAbsent == 0
feedbackTypePresent == 1
feedbackTypeCorrect == 2
\* the literal 5 of every getDigits(x, 5) call
NumberOfDigits == 5

\* Some of the entries of getPrimes(10000, 100000), in its (ascending) order.
PrimeSample == <<10007, 10037, 17137, 31177, 37117, 70019, 71317>>

Min(a, b) == IF a < b THEN a ELSE b

Range(seq) == {seq[k] : k \in 1..Len(seq)}

\* the candidate slice main starts from
getPrimes == SubSeq(PrimeSample, 1, Min(NumPrimes, Len(PrimeSample)))

(***************************************************************************)
(* getDigits                                                               *)
(***************************************************************************)
RECURSIVE getDigits(_, _)
getDigits(num, numberOfDigits) ==
    IF numberOfDigits = 0
    THEN <<>>
    ELSE <<num % 10>> \o getDigits(num \div 10, numberOfDigits - 1)

(***************************************************************************)
(* type feedback; make([]feedback, n) fills a slice with the zero value.   *)
(***************************************************************************)
feedback(digit, feedbackType) == [digit |-> digit, feedbackType |-> feedbackType]

zeroFeedback == feedback(0, 0)

(***************************************************************************)
(* getFeedbackPerDigit                                                     *)
(***************************************************************************)
\* first loop: "Handle all correct digits first"
RECURSIVE markCorrect(_, _, _, _)
markCorrect(fb, g, s, i) ==
    IF i > Len(g)
    THEN fb
    ELSE markCorrect(IF g[i] = s[i]
                     THEN [fb EXCEPT ![i] = feedback(g[i], feedbackTypeCorrect)]
                     ELSE fb,
                     g, s, i + 1)

\* the same loop, skipping no Correct position of the solution
RECURSIVE scanSolutionCountingCorrect(_, _, _, _, _)
scanSolutionCountingCorrect(fb, g, s, i, j) ==
    IF j > Len(s)
    THEN fb
    ELSE IF s[j] = g[i]
    THEN [fb EXCEPT ![i] = feedback(g[i], feedbackTypePresent)]
    ELSE IF j = Len(s)
    THEN [fb EXCEPT ![i] = feedback(g[i], feedbackTypeAbsent)]
    ELSE scanSolutionCountingCorrect(fb, g, s, i, j + 1)

\* inner loop over j for one position i of the guess
RECURSIVE scanSolution(_, _, _, _, _)
scanSolution(fb, g, s, i, j) ==
    IF j > Len(s)
    THEN fb
    ELSE IF fb[j].feedbackType = feedbackTypeCorrect
    THEN scanSolution(fb, g, s, i, j + 1)
    ELSE IF s[j] = g[i]
    THEN [fb EXCEPT ![i] = feedback(g[i], feedbackTypePresent)]
    ELSE IF j = Len(s)
    THEN scanSolution([fb EXCEPT ![i] = feedback(g[i], feedbackTypeAbsent)],
                      g, s, i, j + 1)
    ELSE scanSolution(fb, g, s, i, j + 1)

\* second loop: "Handle remaining (present and absent) digits"
RECURSIVE markRemaining(_, _, _, _)
markRemaining(fb, g, s, i) ==
    IF i > Len(g)
    THEN fb
    ELSE IF fb[i].feedbackType = feedbackTypeCorrect
    THEN markRemaining(fb, g, s, i + 1)
    ELSE markRemaining(scanSolution(fb, g, s, i, 1), g, s, i + 1)

\* called with Len(g) = Len(s) only (the function panics otherwise)
getFeedbackPerDigit(g, s) ==
    markRemaining(markCorrect([i \in 1..Len(g) |-> zeroFeedback], g, s, 1), g, s, 1)

(***************************************************************************)
(* contains; filter(slice, predicate) is SelectSeq(slice, predicate).      *)
(***************************************************************************)
contains(slice, elem) == \E k \in 1..Len(slice) : slice[k] = elem

(***************************************************************************)
(* incorporateFeedback                                                     *)
(***************************************************************************)
\* the predicate of the filter of a Correct position
correctPredicate(candidate, F, i) ==
    getDigits(candidate, NumberOfDigits)[i] = F[i].digit

\* the Present predicate without its "index != i" test
presentPredicateSamePosition(candidate, F, i, correctPositions) ==
    \E index \in 1..NumberOfDigits :
        /\ getDigits(candidate, NumberOfDigits)[index] = F[i].digit
        /\ ~contains(correctPositions, index)

\* the predicate of the filter of a Present position
presentPredicate(candidate, F, i, correctPositions) ==
    \E index \in 1..NumberOfDigits :
        /\ getDigits(candidate, NumberOfDigits)[index] = F[i].digit
        /\ index # i
        /\ ~contains(correctPositions, index)

\* the Absent predicate with the "index != i" test of the Present one
absentPredicateOtherPositions(candidate, F, i, correctPositions) ==
    ~ \E index \in 1..NumberOfDigits :
        /\ getDigits(candidate, NumberOfDigits)[index] = F[i].digit
        /\ index # i
        /\ ~contains(correctPositions, index)

\* the predicate of the filter of an Absent position
absentPredicate(candidate, F, i, correctPositions) ==
    ~ \E index \in 1..NumberOfDigits :
        /\ getDigits(candidate, NumberOfDigits)[index] = F[i].digit
        /\ ~contains(correctPositions, index)

\* first loop: "Process correct feedbacks first as they affect the other feedbacks"
RECURSIVE processCorrect(_, _, _, _)
processCorrect(F, cands, correctPositions, i) ==
    IF i > Len(F)
    THEN [newCandidates |-> cands, correctPositions |-> correctPositions]
    ELSE IF F[i].feedbackType = feedbackTypeCorrect
    THEN processCorrect(F,
                        SelectSeq(cands, LAMBDA c : correctPredicate(c, F, i)),
                        Append(correctPositions, i),
                        i + 1)
    ELSE processCorrect(F, cands, correctPositions, i + 1)

\* second loop: the switch on the feedback type of each position.  The default
\* branch (os.Exit(2)) needs a feedback type outside the three constants.
RECURSIVE processRemaining(_, _, _, _)
processRemaining(F, cands, correctPositions, i) ==
    IF i > Len(F)
    THEN cands
    ELSE IF F[i].feedbackType = feedbackTypeCorrect
    THEN processRemaining(F, cands, correctPositions, i + 1)
    ELSE IF F[i].feedbackType = feedbackTypePresent
    THEN processRemaining(F,
             SelectSeq(cands, LAMBDA c : presentPredicate(c, F, i, correctPositions)),
             correctPositions, i + 1)
    ELSE processRemaining(F,
             SelectSeq(cands, LAMBDA c : absentPredicate(c, F, i, correctPositions)),
             correctPositions, i + 1)

\* copies the slice, then filters the copy
incorporateFeedback(F, cands) ==
    LET afterCorrect == processCorrect(F, cands, <<>>, 1)
    IN  processRemaining(F, afterCorrect.newCandidates, afterCorrect.correctPositions, 1)

(***************************************************************************)
(* Frequency heuristic                                                     *)
(***************************************************************************)
\* a Go map read at a missing key yields 0
findDigitFrequencyPerPosition(numbers, numberOfDigits) ==
    [j \in 1..numberOfDigits |->
        [d \in 0..9 |->
            Cardinality({k \in 1..Len(numbers) :
                            getDigits(numbers[k], numberOfDigits)[j] = d})]]

RECURSIVE sumFrequencies(_, _, _)
sumFrequencies(digits, digitFrequencyPerPosition, i) ==
    IF i > Len(digits)
    THEN 0
    ELSE digitFrequencyPerPosition[i][digits[i]]
         + sumFrequencies(digits, digitFrequencyPerPosition, i + 1)

evaluateGuessFrequency(g, digitFrequencyPerPosition) ==
    sumFrequencies(getDigits(g, NumberOfDigits), digitFrequencyPerPosition, 1)

\* the loop with ">=" in place of ">"
RECURSIVE bestGuessLoopLastWins(_, _, _, _, _)
bestGuessLoopLastWins(cands, digitFrequencyPerPosition, best, bestGuessValue, i) ==
    IF i > Len(cands)
    THEN best
    ELSE LET guessValue == evaluateGuessFrequency(cands[i], digitFrequencyPerPosition)
         IN  IF guessValue >= bestGuessValue
             THEN bestGuessLoopLastWins(cands, digitFrequencyPerPosition,
                                        cands[i], guessValue, i + 1)
             ELSE bestGuessLoopLastWins(cands, digitFrequencyPerPosition,
                                        best, bestGuessValue, i + 1)

\* the loop of findBestGuess (frequency)
RECURSIVE bestGuessLoop(_, _, _, _, _)
bestGuessLoop(cands, digitFrequencyPerPosition, best, bestGuessValue, i) ==
    IF i > Len(cands)
    THEN best
    ELSE LET guessValue == evaluateGuessFrequency(cands[i], digitFrequencyPerPosition)
         IN  IF guessValue > bestGuessValue
             THEN bestGuessLoop(cands, digitFrequencyPerPosition,
                                cands[i], guessValue, i + 1)
             ELSE bestGuessLoop(cands, digitFrequencyPerPosition,
                                best, bestGuessValue, i + 1)

\* candidates[0] panics on an empty slice: applied to non-empty slices only
findBestGuessFrequency(cands, digitFrequencyPerPosition) ==
    bestGuessLoop(cands, digitFrequencyPerPosition, cands[1],
                  evaluateGuessFrequency(cands[1], digitFrequencyPerPosition), 2)

(***************************************************************************)
(* Simulation heuristic                                                    *)
(***************************************************************************)
\* atomic.AddUint64.  The sum is at most Len(candidates)^2, below 2^27 for the
\* 8363 five-digit primes, so the uint64 never wraps.
AddUint64(value, delta) == value + delta

\* what one goroutine of evaluateGuess adds to the accumulator
remainingAfter(g, s, cands) ==
    Len(incorporateFeedback(
            getFeedbackPerDigit(getDigits(g, NumberOfDigits),
                                getDigits(s, NumberOfDigits)),
            cands))

\* the value evaluateGuess returns once every goroutine has added its count
RECURSIVE sumRemaining(_, _, _)
sumRemaining(g, cands, i) ==
    IF i > Len(cands)
    THEN 0
    ELSE AddUint64(remainingAfter(g, cands[i], cands), sumRemaining(g, cands, i + 1))

evaluateGuess(g, cands) == sumRemaining(g, cands, 1)

\* the loop of findBestGuess (simulation): bestGuessValue is never assigned
RECURSIVE simulationLoop(_, _, _, _)
simulationLoop(cands, best, bestGuessValue, i) ==
    IF i > Len(cands)
    THEN best
    ELSE IF evaluateGuess(cands[i], cands) > bestGuessValue
    THEN simulationLoop(cands, cands[i], bestGuessValue, i + 1)
    ELSE simulationLoop(cands, best, bestGuessValue, i + 1)

findBestGuess(cands) == simulationLoop(cands, 0, 0, 1)

(***************************************************************************)
(* all(feedbackPerDigit, f.feedbackType == feedbackTypeCorrect)            *)
(***************************************************************************)
\* true as soon as one entry is Correct
anyCorrect(slice) ==
    \E k \in 1..Len(slice) : slice[k].feedbackType = feedbackTypeCorrect

all(slice) ==
    \A k \in 1..Len(slice) : slice[k].feedbackType = feedbackTypeCorrect

(***************************************************************************)
(* readFeedbackForDigits: every report the player can type for a guess.    *)
(* A line other than c, p or a is asked again and changes nothing.         *)
(***************************************************************************)
FeedbackTypes == {feedbackTypeAbsent, feedbackTypePresent, feedbackTypeCorrect}

readFeedbackForDigits(digits) ==
    {[i \in 1..Len(digits) |-> feedback(digits[i], kinds[i])] :
        kinds \in [1..Len(digits) -> FeedbackTypes]}

\* findBestGuess of the program that runs
selectBestGuess(strat, cands) ==
    IF strat = "frequency"
    THEN findBestGuessFrequency(cands,
             findDigitFrequencyPerPosition(cands, NumberOfDigits))
    ELSE findBestGuess(cands)

(***************************************************************************)
(* Variables a specification leaves alone.                                 *)
(***************************************************************************)
mainVars == <<strategy, candidates, bestGuess, feedbackPerDigit, pc, exitCode,
              prevCandidates, prevGuess>>
callVars == <<guessDigits, possibleSolutionDigits, guess, possibleSolution,
              newCandidates, outcome>>
goVars == <<spawned, wg, remainingCandidatesAfterGuess, goroutines, returned>>

CallIdle ==
    /\ guessDigits = <<>>
    /\ possibleSolutionDigits = <<>>
    /\ guess = 0
    /\ possibleSolution = 0
    /\ newCandidates = <<>>
    /\ outcome = "none"

GoIdle ==
    /\ spawned = 0
    /\ wg = 0
    /\ remainingCandidatesAfterGuess = 0
    /\ goroutines = <<>>
    /\ returned = -1

(***************************************************************************)
(* main: the interaction loop of either program.                           *)
(***************************************************************************)
Init ==
    /\ strategy \in {"frequency", "simulation"}
    /\ candidates = getPrimes
    /\ bestGuess = selectBestGuess(strategy, candidates)
    /\ feedbackPerDigit = <<>>
    /\ pc = "read"
    /\ exitCode = -1
    /\ prevCandidates = <<>>
    /\ prevGuess = 0
    /\ CallIdle
    /\ GoIdle

\* feedbackPerDigit := readFeedbackForDigits(getDigits(bestGuess, 5))
ReadFeedback ==
    /\ pc = "read"
    /\ feedbackPerDigit' \in readFeedbackForDigits(getDigits(bestGuess, NumberOfDigits))
    /\ pc' = "check"
    /\ UNCHANGED <<strategy, candidates, bestGuess, exitCode, prevCandidates, prevGuess>>
    /\ UNCHANGED <<callVars, goVars>>

\* if all(...) { print bestGuess; break }, and main returns
Solved ==
    /\ pc = "check"
    /\ all(feedbackPerDigit)
    /\ pc' = "done"
    /\ exitCode' = 0
    /\ UNCHANGED <<strategy, candidates, bestGuess, feedbackPerDigit,
                   prevCandidates, prevGuess>>
    /\ UNCHANGED <<callVars, goVars>>

\* candidates = incorporateFeedback(...); len(candidates) == 0: os.Exit(1)
NoCandidates ==
    /\ pc = "check"
    /\ ~all(feedbackPerDigit)
    /\ incorporateFeedback(feedbackPerDigit, candidates) = <<>>
    /\ candidates' = <<>>
    /\ prevCandidates' = candidates
    /\ prevGuess' = bestGuess
    /\ pc' = "exit"
    /\ exitCode' = 1
    /\ UNCHANGED <<strategy, bestGuess, feedbackPerDigit>>
    /\ UNCHANGED <<callVars, goVars>>

\* candidates = incorporateFeedback(...); bestGuess = findBestGuess(candidates)
NextGuess ==
    /\ pc = "check"
    /\ ~all(feedbackPerDigit)
    /\ incorporateFeedback(feedbackPerDigit, candidates) # <<>>
    /\ candidates' = incorporateFeedback(feedbackPerDigit, candidates)
    /\ bestGuess' = selectBestGuess(strategy, candidates')
    /\ prevCandidates' = candidates
    /\ prevGuess' = bestGuess
    /\ pc' = "read"
    /\ UNCHANGED <<strategy, feedbackPerDigit, exitCode>>
    /\ UNCHANGED <<callVars, goVars>>

Next ==
    \/ ReadFeedback
    \/ Solved
    \/ NoCandidates
    \/ NextGuess

Spec == Init /\ [][Next]_vars

(***************************************************************************)
(* getFeedbackPerDigit applied to a pair of equal-length digit sequences.  *)
(***************************************************************************)
DigitSequences(n) == [1..n -> 0..MaxDigit]

InitFeedback ==
    /\ \E n \in 1..MaxLen :
          /\ guessDigits \in DigitSequences(n)
          /\ possibleSolutionDigits \in DigitSequences(n)
    /\ feedbackPerDigit = <<>>
    /\ pc = "call"
    /\ strategy = "none"
    /\ candidates = <<>>
    /\ bestGuess = 0
    /\ exitCode = -1
    /\ prevCandidates = <<>>
    /\ prevGuess = 0
    /\ guess = 0
    /\ possibleSolution = 0
    /\ newCandidates = <<>>
    /\ outcome = "none"
    /\ GoIdle

CallGetFeedbackPerDigit ==
    /\ pc = "call"
    /\ feedbackPerDigit' = getFeedbackPerDigit(guessDigits, possibleSolutionDigits)
    /\ pc' = "returned"
    /\ UNCHANGED <<strategy, candidates, bestGuess, exitCode, prevCandidates, prevGuess>>
    /\ UNCHANGED <<callVars, goVars>>

NextFeedback == CallGetFeedbackPerDigit

SpecFeedback == InitFeedback /\ [][NextFeedback]_vars

(***************************************************************************)
(* The functions applied to a candidate slice: any sub-slice of the        *)
(* initial one, the empty slice included.                                  *)
(***************************************************************************)
RECURSIVE subSlice(_, _, _)
subSlice(seq, keep, k) ==
    IF k > Len(seq)
    THEN <<>>
    ELSE (IF k \in keep THEN <<seq[k]>> ELSE <<>>) \o subSlice(seq, keep, k + 1)

CandidateSlices == {subSlice(getPrimes, keep, 1) : keep \in SUBSET (1..Len(getPrimes))}

InitCore ==
    /\ candidates \in CandidateSlices
    /\ pc = "call"
    /\ strategy = "none"
    /\ bestGuess = 0
    /\ feedbackPerDigit = <<>>
    /\ exitCode = -1
    /\ prevCandidates = <<>>
    /\ prevGuess = 0
    /\ CallIdle
    /\ GoIdle

\* incorporateFeedback on a report typed for any number of the sample
CallIncorporateFeedback ==
    /\ pc = "call"
    /\ \E g \in Range(getPrimes) :
          /\ guess' = g
          /\ feedbackPerDigit' \in readFeedbackForDigits(getDigits(g, NumberOfDigits))
    /\ newCandidates' = incorporateFeedback(feedbackPerDigit', candidates)
    /\ pc' = "incorporateFeedback"
    /\ UNCHANGED <<strategy, candidates, bestGuess, exitCode, prevCandidates, prevGuess>>
    /\ UNCHANGED <<guessDigits, possibleSolutionDigits, possibleSolution, outcome>>
    /\ UNCHANGED goVars

\* the body of one goroutine of evaluateGuess: the evaluator's report for
\* (guess, possibleSolution), then the filter
CallEvaluate ==
    /\ pc = "call"
    /\ \E g \in Range(candidates), s \in Range(candidates) :
          /\ guess' = g
          /\ possibleSolution' = s
          /\ feedbackPerDigit' = getFeedbackPerDigit(getDigits(g, NumberOfDigits),
                                                     getDigits(s, NumberOfDigits))
    /\ newCandidates' = incorporateFeedback(feedbackPerDigit', candidates)
    /\ pc' = "evaluate"
    /\ UNCHANGED <<strategy, candidates, bestGuess, exitCode, prevCandidates, prevGuess>>
    /\ UNCHANGED <<guessDigits, possibleSolutionDigits, outcome>>
    /\ UNCHANGED goVars

\* findBestGuess(candidates) of the simulation program
CallFindBestGuess ==
    /\ pc = "call"
    /\ bestGuess' = findBestGuess(candidates)
    /\ outcome' = "return"
    /\ pc' = "findBestGuess"
    /\ UNCHANGED <<strategy, candidates, feedbackPerDigit, exitCode, prevCandidates,
                   prevGuess>>
    /\ UNCHANGED <<guessDigits, possibleSolutionDigits, guess, possibleSolution,
                   newCandidates>>
    /\ UNCHANGED goVars

\* findBestGuess(candidates, findDigitFrequencyPerPosition(candidates, 5)) of the
\* frequency program; candidates[0] is an index-out-of-range panic on an empty slice
CallFindBestGuessFrequency ==
    /\ pc = "call"
    /\ IF Len(candidates) = 0
       THEN /\ outcome' = "panic"
            /\ bestGuess' = bestGuess
       ELSE /\ outcome' = "return"
            /\ bestGuess' = findBestGuessFrequency(candidates,
                                findDigitFrequencyPerPosition(candidates, NumberOfDigits))
    /\ pc' = "findBestGuessFrequency"
    /\ UNCHANGED <<strategy, candidates, feedbackPerDigit, exitCode, prevCandidates,
                   prevGuess>>
    /\ UNCHANGED <<guessDigits, possibleSolutionDigits, guess, possibleSolution,
                   newCandidates>>
    /\ UNCHANGED goVars

NextCore ==
    \/ CallIncorporateFeedback
    \/ CallEvaluate
    \/ CallFindBestGuess
    \/ CallFindBestGuessFrequency

SpecCore == InitCore /\ [][NextCore]_vars

(***************************************************************************)
(* evaluateGuess of the simulation program, one goroutine per candidate.   *)
(***************************************************************************)
\* a Wait that does not block
wgWaitNoBarrier(counter) == TRUE

\* wg.Wait() returns once the counter is zero
wgWait(counter) == counter = 0

InitEvaluate ==
    /\ candidates \in {c \in CandidateSlices : Len(c) \in 1..MaxGoroutines}
    /\ guess \in Range(candidates)
    /\ prevCandidates = candidates
    /\ pc = "spawn"
    /\ strategy = "simulation"
    /\ bestGuess = 0
    /\ feedbackPerDigit = <<>>
    /\ exitCode = -1
    /\ prevGuess = 0
    /\ guessDigits = <<>>
    /\ possibleSolutionDigits = <<>>
    /\ possibleSolution = 0
    /\ newCandidates = <<>>
    /\ outcome = "none"
    /\ GoIdle

\* one iteration of the loop: possibleSolution := candidates[i]; wg.Add(1); go func
Spawn ==
    /\ pc = "spawn"
    /\ spawned < Len(candidates)
    /\ goroutines' = Append(goroutines,
                            [pc |-> "filter",
                             possibleSolution |-> candidates[spawned + 1],
                             newCandidates |-> <<>>])
    /\ wg' = wg + 1
    /\ spawned' = spawned + 1
    /\ UNCHANGED <<remainingCandidatesAfterGuess, returned>>
    /\ UNCHANGED <<mainVars, callVars>>

\* goroutine k: getFeedbackPerDigit, then incorporateFeedback on the shared slice
GoFilter(k) ==
    /\ goroutines[k].pc = "filter"
    /\ goroutines' = [goroutines EXCEPT
           ![k].pc = "add",
           ![k].newCandidates =
               incorporateFeedback(
                   getFeedbackPerDigit(getDigits(guess, NumberOfDigits),
                                       getDigits(goroutines[k].possibleSolution,
                                                 NumberOfDigits)),
                   candidates)]
    /\ UNCHANGED <<spawned, wg, remainingCandidatesAfterGuess, returned>>
    /\ UNCHANGED <<mainVars, callVars>>

\* goroutine k: atomic.AddUint64(&remainingCandidatesAfterGuess, len(newCandidates))
GoAdd(k) ==
    /\ goroutines[k].pc = "add"
    /\ remainingCandidatesAfterGuess' =
           AddUint64(remainingCandidatesAfterGuess, Len(goroutines[k].newCandidates))
    /\ goroutines' = [goroutines EXCEPT ![k].pc = "done"]
    /\ UNCHANGED <<spawned, wg, returned>>
    /\ UNCHANGED <<mainVars, callVars>>

\* goroutine k: wg.Done()
GoDone(k) ==
    /\ goroutines[k].pc = "done"
    /\ wg' = wg - 1
    /\ goroutines' = [goroutines EXCEPT ![k].pc = "finished"]
    /\ UNCHANGED <<spawned, remainingCandidatesAfterGuess, returned>>
    /\ UNCHANGED <<mainVars, callVars>>

\* the loop is over; wg.Wait(); return remainingCandidatesAfterGuess
WaitAndReturn ==
    /\ pc = "spawn"
    /\ spawned = Len(candidates)
    /\ wgWait(wg)
    /\ returned' = remainingCandidatesAfterGuess
    /\ pc' = "returned"
    /\ UNCHANGED <<spawned, wg, remainingCandidatesAfterGuess, goroutines>>
    /\ UNCHANGED <<strategy, candidates, bestGuess, feedbackPerDigit, exitCode,
                   prevCandidates, prevGuess>>
    /\ UNCHANGED callVars

NextEvaluate ==
    \/ Spawn
    \/ \E k \in 1..Len(goroutines) : GoFilter(k)
    \/ \E k \in 1..Len(goroutines) : GoAdd(k)
    \/ \E k \in 1..Len(goroutines) : GoDone(k)
    \/ WaitAndReturn

SpecEvaluate == InitEvaluate /\ [][NextEvaluate]_vars

(***************************************************************************)
(* Properties                                                              *)
(***************************************************************************)
\* the kind the two-pass rule gives position i of guess g against solution s
TwoPassKind(g, s, i) ==
    IF g[i] = s[i]
    THEN feedbackTypeCorrect
    ELSE IF \E j \in 1..Len(s) : g[j] # s[j] /\ s[j] = g[i]
    THEN feedbackTypePresent
    ELSE feedbackTypeAbsent

\* C1: getFeedbackPerDigit(g, s) gives every position exactly the kind of the
\* two-pass rule: Correct iff g[i] = s[i]; otherwise Present iff some position j
\* that is not Correct has s[j] = g[i]; otherwise Absent.
C1_TwoPassKinds ==
    pc = "returned" =>
        /\ Len(feedbackPerDigit) = Len(guessDigits)
        /\ \A i \in 1..Len(guessDigits) :
              feedbackPerDigit[i].feedbackType =
                  TwoPassKind(guessDigits, possibleSolutionDigits, i)

\* a report with the three kinds, whose Absent digit is Correct elsewhere
C1_Witness ==
    /\ pc = "returned"
    /\ \E i, j, k \in 1..Len(feedbackPerDigit) :
          /\ feedbackPerDigit[i].feedbackType = feedbackTypeCorrect
          /\ feedbackPerDigit[j].feedbackType = feedbackTypePresent
          /\ feedbackPerDigit[k].feedbackType = feedbackTypeAbsent
          /\ guessDigits[k] = possibleSolutionDigits[i]

\* C9: entry i of the report of getFeedbackPerDigit(g, s) carries the digit g[i],
\* whatever its kind and whichever other positions are Correct.
C9_ReportCarriesGuessDigits ==
    pc = "returned" =>
        \A i \in 1..Len(guessDigits) : feedbackPerDigit[i].digit = guessDigits[i]

\* the Correct positions of a report
CorrectPositions(F) == {i \in 1..Len(F) : F[i].feedbackType = feedbackTypeCorrect}

\* candidate c satisfies every entry of report F
Consistent(F, c) ==
    LET digits == getDigits(c, NumberOfDigits)
        free == (1..NumberOfDigits) \ CorrectPositions(F)
    IN  \A i \in 1..Len(F) :
            /\ F[i].feedbackType = feedbackTypeCorrect => digits[i] = F[i].digit
            /\ F[i].feedbackType = feedbackTypePresent =>
                   \E k \in free : k # i /\ digits[k] = F[i].digit
            /\ F[i].feedbackType = feedbackTypeAbsent =>
                   \A k \in free : digits[k] # F[i].digit

\* C2: incorporateFeedback(F, C) is exactly the candidates of C, in their order,
\* that have F's digit at each Correct position, have each Present digit at some
\* other position that is not Correct, and have each Absent digit at no position
\* outside the Correct ones (all the Correct positions of F, not those before i).
C2_FilterIsConsistentCandidates ==
    pc \in {"incorporateFeedback", "evaluate"} =>
        newCandidates = SelectSeq(candidates, LAMBDA c : Consistent(feedbackPerDigit, c))

\* a Present position below a Correct one, and a filter that keeps some candidates
\* and drops others
C2_Witness ==
    /\ pc = "incorporateFeedback"
    /\ \E i, j \in 1..NumberOfDigits :
          /\ i < j
          /\ feedbackPerDigit[i].feedbackType = feedbackTypePresent
          /\ feedbackPerDigit[j].feedbackType = feedbackTypeCorrect
    /\ Len(newCandidates) >= 2
    /\ Len(newCandidates) < Len(candidates)

\* C8: filtering by the report the evaluator computes for (g, s) keeps s.
C8_SolutionSurvivesOwnFeedback ==
    pc = "evaluate" => possibleSolution \in Range(newCandidates)

\* the first candidate whose simulation sum is the minimum over the slice
FirstMinimum(cands) ==
    cands[CHOOSE k \in 1..Len(cands) :
              /\ \A j \in 1..Len(cands) :
                    evaluateGuess(cands[k], cands) <= evaluateGuess(cands[j], cands)
              /\ \A j \in 1..(k - 1) :
                    evaluateGuess(cands[j], cands) > evaluateGuess(cands[k], cands)]

\* C3: findBestGuess (simulation) returns the candidate with the minimum
\* evaluateGuess sum, the first of them on a tie.
C3_SimulationPicksFirstMinimum ==
    (pc = "findBestGuess" /\ Len(candidates) > 0) =>
        bestGuess = FirstMinimum(candidates)

\* the frequency score of candidate c in the slice: over the 5 positions, the
\* number of candidates with c's digit at that position
FrequencyScore(c, cands) ==
    Cardinality({pair \in (1..NumberOfDigits) \X (1..Len(cands)) :
                    getDigits(cands[pair[2]], NumberOfDigits)[pair[1]]
                        = getDigits(c, NumberOfDigits)[pair[1]]})

\* C4: findBestGuess (frequency) returns a candidate of maximum frequency score,
\* the first of them on a tie.
C4_FrequencyPicksFirstMaximum ==
    (pc = "findBestGuessFrequency" /\ Len(candidates) > 0) =>
        \E k \in 1..Len(candidates) :
            /\ bestGuess = candidates[k]
            /\ \A j \in 1..Len(candidates) :
                  FrequencyScore(candidates[j], candidates)
                      <= FrequencyScore(candidates[k], candidates)
            /\ \A j \in 1..(k - 1) :
                  FrequencyScore(candidates[j], candidates)
                      < FrequencyScore(candidates[k], candidates)

\* the winner is not the first candidate and a later candidate ties with it
C4_Witness ==
    /\ pc = "findBestGuessFrequency"
    /\ outcome = "return"
    /\ \E j, k \in 1..Len(candidates) :
          /\ 1 < j
          /\ j < k
          /\ bestGuess = candidates[j]
          /\ FrequencyScore(candidates[k], candidates)
                 = FrequencyScore(candidates[j], candidates)

\* C5: on an empty candidate slice either findBestGuess fails with the
\* EmptyCandidateSet error and returns no number.
C5_EmptyCandidateSetError ==
    (pc \in {"findBestGuess", "findBestGuessFrequency"} /\ Len(candidates) = 0) =>
        outcome = "EmptyCandidateSet"

\* C6: evaluateGuess returns only after every goroutine it spawned (one per
\* candidate) has finished, the value returned is the sum over the candidates s
\* of the length of incorporateFeedback(getFeedbackPerDigit(guess, s), candidates)
\* in every interleaving, and the shared slice is never changed.
C6_EvaluateGuessJoinsAndSums ==
    /\ candidates = prevCandidates
    /\ pc = "returned" =>
          /\ Len(goroutines) = Len(candidates)
          /\ \A k \in 1..Len(goroutines) :
                /\ goroutines[k].pc = "finished"
                /\ goroutines[k].possibleSolution = candidates[k]
          /\ returned = evaluateGuess(guess, candidates)

\* a return after several goroutines, one of which kept more than one candidate
C6_Witness ==
    /\ pc = "returned"
    /\ Len(candidates) >= 2
    /\ \E k \in 1..Len(goroutines) : Len(goroutines[k].newCandidates) >= 2

\* report F is Correct at every position
FullyCorrect(F) ==
    \A i \in 1..Len(F) : F[i].feedbackType = feedbackTypeCorrect

\* the report in feedbackPerDigit was read for number g
ReportIsFor(F, g) ==
    /\ Len(F) = NumberOfDigits
    /\ \A i \in 1..NumberOfDigits : F[i].digit = getDigits(g, NumberOfDigits)[i]

\* C7: a report that is Correct at all 5 positions ends the loop with exit code 0
\* and the guess it was read for as the solution, without filtering or selecting
\* again; exit code 0 never follows a report with a Present or Absent position.
C7_FullCorrectEndsLoop ==
    /\ [][(pc = "check" /\ FullyCorrect(feedbackPerDigit)) =>
             /\ pc' = "done"
             /\ exitCode' = 0
             /\ bestGuess' = bestGuess
             /\ candidates' = candidates]_vars
    /\ [](exitCode = 0 =>
             /\ pc = "done"
             /\ FullyCorrect(feedbackPerDigit)
             /\ ReportIsFor(feedbackPerDigit, bestGuess))

\* the loop ended normally after at least one filtering round
C7_Witness ==
    /\ exitCode = 0
    /\ prevGuess # 0
    /\ Len(candidates) >= 2

\* the filter keeps guess g under a report F read for g
KeepsGuess(F, g) ==
    LET digits == getDigits(g, NumberOfDigits)
        free == (1..NumberOfDigits) \ CorrectPositions(F)
    IN  \A i \in free :
            /\ F[i].feedbackType = feedbackTypePresent
            /\ \E k \in free : k # i /\ digits[k] = digits[i]

\* C10 as stated: after a round whose report is not all Correct, the guess is
\* not in the returned candidate set, which is strictly smaller, and the next
\* recommendation is another number.
C10_GuessAlwaysEliminated ==
    (pc \in {"read", "exit"} /\ prevGuess # 0) =>
        /\ prevGuess \notin Range(candidates)
        /\ Len(candidates) < Len(prevCandidates)
        /\ pc = "read" => bestGuess # prevGuess

\* C10: after a round whose report is not all Correct, the guess is out of the
\* returned candidate set exactly when the report has an Absent position or a
\* Present position whose digit the guess has at no other position that is not
\* Correct; then the set is strictly smaller and the next recommendation differs.
C10_GuessEliminatedUnlessRepeatedPresent ==
    (pc \in {"read", "exit"} /\ prevGuess # 0) =>
        /\ ~FullyCorrect(feedbackPerDigit)
        /\ ReportIsFor(feedbackPerDigit, prevGuess)
        /\ prevGuess \in Range(prevCandidates)
        /\ prevGuess \in Range(candidates) <=> KeepsGuess(feedbackPerDigit, prevGuess)
        /\ ~KeepsGuess(feedbackPerDigit, prevGuess) =>
              /\ Len(candidates) < Len(prevCandidates)
              /\ pc = "read" => bestGuess # prevGuess

\* a round with a Present and an Absent position that dropped the guess and was
\* followed by another recommendation
C10_Witness ==
    /\ pc = "read"
    /\ prevGuess # 0
    /\ prevGuess \notin Range(candidates)
    /\ \E i, j \in 1..NumberOfDigits :
          /\ feedbackPerDigit[i].feedbackType = feedbackTypePresent
          /\ feedbackPerDigit[j].feedbackType = feedbackTypeAbsent

====
